---------------------------- MODULE Spec2Model ----------------------------
(***************************************************************************)
(* A model of the bidirectional hopscotch hash map `BiMap` of the crate    *)
(* (src/src/lib.rs, bucket.rs, bitfield.rs, builder.rs, iterator.rs).      *)
(*                                                                         *)
(* The map is configured with the u8 bitfield (neighbourhoods of W = 8     *)
(* buckets), the narrowest one the crate implements.  Keys are small       *)
(* integers; the two BuildHashers are modelled by tables from keys to      *)
(* 64-bit hash values.  Option<T> is a sequence: << >> is None and <<v>>   *)
(* is Some(v); Bucket::data is << >> or the triple <<key, pair, ideal>>.   *)
(***************************************************************************)
EXTENDS Integers, Sequences, FiniteSets, TLC

(***************************************************************************)
(* Program constants.                                                      *)
(***************************************************************************)
\* pub(crate) const DEFAULT_HASH_MAP_SIZE: usize = 32;
DEFAULT_HASH_MAP_SIZE == 32

\* const RESIZE_GROWTH_FACTOR: usize = 2;
RESIZE_GROWTH_FACTOR == 2

\* MAX_LOAD_FACTOR: f32 = 1.1, kept as the fraction 11 / 10.
MAX_LOAD_FACTOR_NUM == 11

MAX_LOAD_FACTOR_DEN == 10

\* MAX_LOAD_FACTOR as the program holds it: the f32 nearest to 1.1 is
\* 9227469 / 2^23, and an f32 keeps 24 significant bits.
MAX_LOAD_FACTOR_F32 == 9227469

F32_MANTISSA_BITS == 24

\* <u8 as BitSized>::size()
W == 8

\* usize::max_value(), the placeholder pair index of a key that is placed
\* but not linked yet.  TLC's integers are 32 bits wide, so the placeholder
\* is the largest of them; like the real one it is no index of any array.
usize_max_value == 2147483647

(***************************************************************************)
(* Bounds of the model.                                                    *)
(***************************************************************************)
\* The capacities requested of the builder are 0..MaxCapacity, and
\* LargeCapacity - MaxCapacity..LargeCapacity.
MaxCapacity == 100

LargeCapacity == 3813011

\* Keys on each side are 1..NumKeys.
NumKeys == 10

\* A resize that would make the arrays longer than MaxLen buckets is not
\* followed by the model.
MaxLen == 144
\* the number of calls made on a map after it is built
MaxCalls == 3

\* The keys of the maps filled up to their load limit are 1..NumLoadKeys.
NumLoadKeys == 34

Keys == 1..NumKeys

\* The keys the operations are called with: the smallest and the two
\* largest.  The others only ever enter the map through the initial fill.
ActKeys == {k \in Keys : k = 1 \/ k > NumKeys - 2}

BackgroundKeys == 1..(NumKeys - 2)

\* `let x = e;`: the value of e, computed once, under the name x in the
\* body: The({body : x \in {e}}).
The(S) == CHOOSE x \in S : TRUE

None == << >>

Some(v) == <<v>>

(***************************************************************************)
(* bitfield.rs: the BitField implementation for unsigned integers, here    *)
(* for u8: a bitfield is an integer in 0..2^W-1.                           *)
(***************************************************************************)
RECURSIVE BitAnd(_, _)
BitAnd(x, y) ==
    IF x = 0 \/ y = 0 THEN 0
    ELSE (x % 2) * (y % 2) + 2 * BitAnd(x \div 2, y \div 2)

RECURSIVE BitOr(_, _)
BitOr(x, y) ==
    IF x = 0 THEN y
    ELSE IF y = 0 THEN x
    ELSE (IF x % 2 = 1 \/ y % 2 = 1 THEN 1 ELSE 0) + 2 * BitOr(x \div 2, y \div 2)

\* !x on a W-bit unsigned integer
BitNot(x) == (2^W - 1) - x

\* x >> 1
Shr1(x) == x \div 2

\* zero_at with a fault: the bits below index are set, the bits above it
\* are clear
zero_at_low_bits(index) == 2^index - 1

\* Self::from(1) << index.  A shift by W or more overflows: the callers
\* below test ShiftOverflows first.
one_at(index) == 2^index

zero_at(index) == BitNot(one_at(index))

ShiftOverflows(index) == index >= W

full(b) == b = BitOr(one_at(0), zero_at(0))

\* BitFieldIterator::next on the iterator state <<bitfield, index>>:
\* None, or the item with the iterator's next state.
RECURSIVE SkipZeros(_, _)
SkipZeros(bitfield, index) ==
    IF BitAnd(1, bitfield) = 0
    THEN SkipZeros(Shr1(bitfield), index + 1)
    ELSE <<bitfield, index>>

BitFieldIterator_next(it) ==
    IF it[1] = 0 THEN None
    ELSE The({Some([item |-> (s[2] + 1) - 1, it |-> <<Shr1(s[1]), s[2] + 1>>]) :
                 s \in {SkipZeros(it[1], it[2])}})

\* line 100 with a fault: the iterator counts its indexes from 1
BitFieldIterator_new_from_one(b) == <<b, 1>>

\* line 100: BitFieldIterator(*self, 0)
BitFieldIterator_new(b) == <<b, 0>>

\* bitfield.iter().collect(): the items in the order next() yields them
RECURSIVE Collect(_)
Collect(it) ==
    The({IF n = None THEN << >> ELSE <<n[1].item>> \o Collect(n[1].it) :
            n \in {BitFieldIterator_next(it)}})

iter(b) == Collect(<<b, 0>>)

(***************************************************************************)
(* bucket.rs                                                               *)
(***************************************************************************)
empty_vec(size) ==
    [i \in 0..(size - 1) |->
        [data |-> None, neighbourhood |-> BitAnd(one_at(0), zero_at(0))]]

\* slice.len() of an array modelled as a function on 0..n-1
ArrLen(data) == Cardinality(DOMAIN data)

(***************************************************************************)
(* builder.rs                                                              *)
(***************************************************************************)
Max(a, b) == IF a >= b THEN a ELSE b

\* f32 arithmetic.  A finite f32 that is not negative is kept as a mantissa
\* m and an exponent e, of value m * 2^e: m is 0, or has exactly
\* F32_MANTISSA_BITS bits.  Products of two mantissas are kept in two halves
\* of F32_MANTISSA_BITS bits each.
RECURSIVE BitLen(_)
BitLen(x) == IF x = 0 THEN 0 ELSE 1 + BitLen(x \div 2)

F32(m, e) == [m |-> m, e |-> e]

\* The f32 nearest to (q + r / unit) * 2^e, ties to even, for a q of
\* F32_MANTISSA_BITS bits and r < unit
F32Round(q, r, unit, e) ==
    IF 2 * r > unit \/ (2 * r = unit /\ q % 2 = 1)
    THEN IF q + 1 = 2^F32_MANTISSA_BITS
         THEN F32(2^(F32_MANTISSA_BITS - 1), e + 1)
         ELSE F32(q + 1, e)
    ELSE F32(q, e)

\* x as f32, for a usize x
F32FromInt(x) ==
    IF x = 0 THEN F32(0, 0)
    ELSE The({IF n <= F32_MANTISSA_BITS
              THEN F32(x * 2^(F32_MANTISSA_BITS - n), n - F32_MANTISSA_BITS)
              ELSE The({F32Round(x \div unit, x % unit, unit,
                                 n - F32_MANTISSA_BITS) :
                           unit \in {2^(n - F32_MANTISSA_BITS)}}) :
                 n \in {BitLen(x)}})

\* MAX_LOAD_FACTOR: the f32 nearest to 1.1
MAX_LOAD_FACTOR == F32(MAX_LOAD_FACTOR_F32, 1 - F32_MANTISSA_BITS)

\* The product x * y of two mantissas as <<high half, low half>>
MantissaProduct(x, y) ==
    LET half == 2^(F32_MANTISSA_BITS \div 2)
        whole == 2^F32_MANTISSA_BITS
    IN  The({The({<<(x \div half) * (y \div half) + mid \div half
                        + low \div whole,
                    low % whole>> :
                     low \in {(mid % half) * half + (x % half) * (y % half)}}) :
                mid \in {(x \div half) * (y % half) + (x % half) * (y \div half)}})

\* a * b in f32
F32Mul(a, b) ==
    IF a.m = 0 \/ b.m = 0 THEN F32(0, 0)
    ELSE The({The({F32Round(p[1] * 2^(F32_MANTISSA_BITS - s) + p[2] \div 2^s,
                            p[2] % 2^s, 2^s, a.e + b.e + s) :
                      s \in {BitLen(p[1])}}) :
                 p \in {MantissaProduct(a.m, b.m)}})

\* n more binary digits of the quotient rem / d after the digits q
RECURSIVE DivDigits(_, _, _, _)
DivDigits(q, rem, d, n) ==
    IF n = 0 THEN <<q, rem>>
    ELSE DivDigits(2 * q + (2 * rem) \div d, (2 * rem) % d, d, n - 1)

\* a / b in f32, for b # 0
F32Div(a, b) ==
    IF a.m = 0 THEN F32(0, 0)
    ELSE The({The({F32Round(d[1], d[2], b.m, a.e - b.e - n) :
                      d \in {DivDigits(a.m \div b.m, a.m % b.m, b.m, n)}}) :
                 n \in {IF a.m >= b.m THEN F32_MANTISSA_BITS - 1
                                      ELSE F32_MANTISSA_BITS}})

\* a.floor() as usize
F32Floor(a) == IF a.e >= 0 THEN a.m * 2^a.e ELSE a.m \div 2^(0 - a.e)

\* a.ceil() as usize
F32Ceil(a) ==
    IF a.e >= 0 THEN a.m * 2^a.e
    ELSE (a.m + 2^(0 - a.e) - 1) \div 2^(0 - a.e)

\* a >= b
F32Ge(a, b) ==
    \/ b.m = 0
    \/ a.m # 0 /\ (a.e > b.e \/ (a.e = b.e /\ a.m >= b.m))

\* (x as f32 * MAX_LOAD_FACTOR).ceil() as usize
CeilTimesLoad(x) == F32Ceil(F32Mul(F32FromInt(x), MAX_LOAD_FACTOR))

\* (x as f32 / MAX_LOAD_FACTOR).floor() as usize
FloorDivLoad(x) == F32Floor(F32Div(F32FromInt(x), MAX_LOAD_FACTOR))

\* lines 130-133: the length of the arrays for a requested capacity
finish_capacity(cap) ==
    IF cap = 0 THEN 0
    ELSE CeilTimesLoad(Max(DEFAULT_HASH_MAP_SIZE, cap))

finish(cap, left_hasher, right_hasher) ==
    [len |-> 0,
     left_data |-> empty_vec(finish_capacity(cap)),
     right_data |-> empty_vec(finish_capacity(cap)),
     left_hasher |-> left_hasher,
     right_hasher |-> right_hasher]

(***************************************************************************)
(* lib.rs: helpers                                                         *)
(***************************************************************************)
\* hasher.finish() as usize % len; the callers test len = 0 first (the
\* remainder by zero panics).
\* find_ideal_index with a fault: the bucket W further on than the hash says
find_ideal_index_further(key, hasher, len) == (hasher[key] + W) % len

\* find_ideal_index with a fault: the hash is halved before the remainder
find_ideal_index_halved(key, hasher, len) == (hasher[key] \div 2) % len

find_ideal_index(key, hasher, len) == hasher[key] % len

\* mark_as_full with a fault: the bit is set in the bucket the key is in
mark_as_full_at_actual(ideal_index, actual_index, data) ==
    The({[d EXCEPT ![actual_index].neighbourhood =
                       BitOr(@, one_at((n + actual_index - ideal_index) % n))] :
            d \in {data}, n \in {ArrLen(data)}})

mark_as_full(ideal_index, actual_index, data) ==
    The({[d EXCEPT ![ideal_index].neighbourhood =
                       BitOr(@, one_at((n + actual_index - ideal_index) % n))] :
            d \in {data}, n \in {ArrLen(data)}})

\* mark_as_empty with a fault: the bit is left as it is
mark_as_empty_kept(ideal_index, actual_index, data) == data

mark_as_empty(ideal_index, actual_index, data) ==
    The({[d EXCEPT ![ideal_index].neighbourhood =
                       BitAnd(@, zero_at((n + actual_index - ideal_index) % n))] :
            d \in {data}, n \in {ArrLen(data)}})

(***************************************************************************)
(* lib.rs: BiMap::get and BiMap::remove                                    *)
(***************************************************************************)
\* Iterator::find: the first element of seq that passes Test, as an Option.
Find(seq, Test(_)) ==
    The({IF hits = {} THEN None
         ELSE Some(seq[CHOOSE i \in hits : \A j \in hits : i <= j]) :
            hits \in {{i \in 1..Len(seq) : Test(seq[i])}}})

\* The tail of the filter chain of get (lines 473-475) over the buckets whose
\* key matched: the first one whose paired bucket holds data.  Indexing the
\* paired array out of bounds panics.
RECURSIVE get_first(_, _)
get_first(cands, value_data) ==
    IF cands = << >> THEN [tag |-> "ok", ret |-> None]
    ELSE LET pair_index == Head(cands)[2]
         IN  IF pair_index >= ArrLen(value_data)
             THEN [tag |-> "panic", ret |-> None]
             ELSE IF value_data[pair_index].data = None
             THEN get_first(Tail(cands), value_data)
             ELSE [tag |-> "ok", ret |-> Some(value_data[pair_index].data[1])]

\* get with a fault: only the ideal bucket is looked at, not its neighbourhood
get_ideal_only(key, key_data, value_data, key_hasher) ==
    IF ArrLen(key_data) = 0 THEN [tag |-> "panic", ret |-> None]
    ELSE get_first(SelectSeq(<<key_data[find_ideal_index(key, key_hasher,
                                                        ArrLen(key_data))].data>>,
                             LAMBDA d : d # None /\ d[1] = key),
                   value_data)

get(key, key_data, value_data, key_hasher) ==
    The({IF len = 0 THEN [tag |-> "panic", ret |-> None]
         ELSE The({get_first(SelectSeq([i \in 1..Len(offsets) |->
                                           key_data[(hasher_ideal + offsets[i]) % len].data],
                                       LAMBDA d : d # None /\ d[1] = key),
                             value_data) :
                      hasher_ideal \in {find_ideal_index(key, key_hasher, len)},
                      offsets \in {iter(key_data[find_ideal_index(key, key_hasher, len)]
                                            .neighbourhood)}}) :
            len \in {ArrLen(key_data)}})

\* lines 506-518 of remove: the key was found at `offset` of bucket `index`
remove_found(index, offset, len, key_data, value_data, value_hasher, map_len) ==
    LET at == (index + offset) % len
        taken == key_data[at].data
        value_index == taken[2]
        panic == [tag |-> "panic", ret |-> None, key_data |-> key_data,
                  value_data |-> value_data, map_len |-> map_len]
    IN  IF value_index >= ArrLen(value_data) THEN panic
        ELSE IF value_data[value_index].data = None THEN panic
        ELSE
        LET value == value_data[value_index].data[1]
            ideal_value_index == find_ideal_index(value, value_hasher, len)
            value_offset == (value_index + len - ideal_value_index) % len
        IN  IF ShiftOverflows(value_offset) \/ map_len = 0 THEN panic
            ELSE [tag |-> "ok",
                  ret |-> Some(<<taken[1], value>>),
                  key_data |->
                      [key_data EXCEPT
                          ![index].neighbourhood = BitAnd(@, zero_at(offset)),
                          ![at].data = None],
                  value_data |->
                      [value_data EXCEPT
                          ![value_index].data = None,
                          ![ideal_value_index].neighbourhood =
                              BitAnd(@, zero_at(value_offset))],
                  map_len |-> map_len - 1]

remove(key, key_data, value_data, key_hasher, value_hasher, map_len) ==
    The({IF len = 0
         THEN [tag |-> "panic", ret |-> None, key_data |-> key_data,
               value_data |-> value_data, map_len |-> map_len]
         ELSE The({IF found = None
                   THEN [tag |-> "ok", ret |-> None, key_data |-> key_data,
                         value_data |-> value_data, map_len |-> map_len]
                   ELSE remove_found(find_ideal_index(key, key_hasher, len), found[1],
                                     len, key_data, value_data, value_hasher, map_len) :
                      found \in
                        {Find(iter(key_data[find_ideal_index(key, key_hasher, len)]
                                       .neighbourhood),
                              LAMBDA offset :
                                  LET d == key_data[(find_ideal_index(key, key_hasher, len)
                                                     + offset) % len].data
                                  IN  d # None /\ d[1] = key)}}) :
            len \in {ArrLen(key_data)}})

(***************************************************************************)
(* lib.rs: BiMap::insert_one_sided                                         *)
(*                                                                         *)
(* The result is Ok(index) or Err(key) together with the two arrays as    *)
(* the call leaves them and the number of relocations it made.  The       *)
(* recursion of line 290 has no bound of its own: a nested call that is    *)
(* entered with the key and the key array of a call still on the stack    *)
(* repeats that call's steps for ever (in the program, until the stack     *)
(* overflows); `stack` holds those arguments and the result is "Diverge". *)
(***************************************************************************)
IosResult(tag, index, key_data, value_data, hops) ==
    [tag |-> tag, index |-> index, key_data |-> key_data,
     value_data |-> value_data, hops |-> hops]

\* insert_one_sided_after without the undo of lines 314-318
insert_one_sided_after_unrestored(r, index, ideal_index, new_key, new_value, new_ideal, len) ==
    IF r.tag = "Ok"
    THEN IosResult("Ok", index,
             mark_as_full(ideal_index, index,
                 mark_as_full(new_ideal, r.index,
                     mark_as_empty(new_ideal, index,
                         [r.key_data EXCEPT ![r.index].data[2] = new_value]))),
             [r.value_data EXCEPT ![new_value].data[2] = r.index],
             r.hops + 1)
    ELSE r

\* insert_one_sided_after returning the index of the relocated occupant
insert_one_sided_after_nested_index(r, index, ideal_index, new_key, new_value, new_ideal, len) ==
    IF r.tag = "Ok"
    THEN IosResult("Ok", r.index,
             mark_as_full(ideal_index, index,
                 mark_as_full(new_ideal, r.index,
                     mark_as_empty(new_ideal, index,
                         [r.key_data EXCEPT ![r.index].data[2] = new_value]))),
             [r.value_data EXCEPT ![new_value].data[2] = r.index],
             r.hops + 1)
    ELSE IF r.tag = "Err"
    THEN IosResult("Err", 0,
             [r.key_data EXCEPT ![index].data = <<new_key, new_value, new_ideal>>],
             r.value_data, r.hops)
    ELSE r

\* insert_one_sided_after without line 293, which tells the partner of the
\* relocated occupant its new index
insert_one_sided_after_unlinked(r, index, ideal_index, new_key, new_value, new_ideal, len) ==
    IF r.tag = "Ok"
    THEN IosResult("Ok", index,
             mark_as_full(ideal_index, index,
                 mark_as_full(new_ideal, r.index,
                     mark_as_empty(new_ideal, index,
                         [r.key_data EXCEPT ![r.index].data[2] = new_value]))),
             r.value_data,
             r.hops + 1)
    ELSE IF r.tag = "Err"
    THEN IosResult("Err", 0,
             [r.key_data EXCEPT ![index].data = <<new_key, new_value, new_ideal>>],
             r.value_data, r.hops)
    ELSE r

\* lines 291-313: the occupant (new_key, new_value, new_ideal) of `index` was
\* booted out for the key of ideal_index, and r is what its own insertion gave
insert_one_sided_after(r, index, ideal_index, new_key, new_value, new_ideal, len) ==
    IF r.tag = "Ok"
    THEN IF \/ new_value >= ArrLen(r.value_data)
            \/ r.value_data[new_value].data = None
            \/ ShiftOverflows((len + index - new_ideal) % len)
            \/ ShiftOverflows((len + r.index - new_ideal) % len)
            \/ ShiftOverflows((len + index - ideal_index) % len)
         THEN IosResult("Panic", 0, r.key_data, r.value_data, r.hops)
         ELSE IosResult("Ok", index,
                  mark_as_full(ideal_index, index,
                      mark_as_full(new_ideal, r.index,
                          mark_as_empty(new_ideal, index,
                              [r.key_data EXCEPT ![r.index].data[2] = new_value]))),
                  [r.value_data EXCEPT ![new_value].data[2] = r.index],
                  r.hops + 1)
    ELSE IF r.tag = "Err"
    THEN \* the replacement failed - undo our insert
         IosResult("Err", 0,
             [r.key_data EXCEPT ![index].data = <<new_key, new_value, new_ideal>>],
             r.value_data, r.hops)
    ELSE r

\* line 260-265: the offset of the first free bucket from ideal_index on,
\* going round the array; None if every bucket is taken
nearest_free(key_data, ideal_index, len) ==
    The({IF free = {} THEN None ELSE Some(CHOOSE o \in free : \A p \in free : o <= p) :
            free \in {{offset \in 0..(len - 1) :
                         key_data[(ideal_index + offset) % len].data = None}}})

RECURSIVE insert_one_sided(_, _, _, _, _)
\* lines 274-318: the free bucket is outside the neighbourhood
insert_one_sided_far(key, key_data, value_data, hasher, stack, ideal_index, len) ==
    LET max_offset == (ideal_index + W) % len
        nearest ==
            Find([i \in 1..(W - 1) |-> (len + max_offset - i) % len],
                 LAMBDA i :
                     LET ideal == key_data[i].data[3]
                     IN  ideal > ideal_index \/ ideal < max_offset)
    IN  The({IF found = None
             THEN IosResult("Err", 0, key_data, value_data, 0)
             ELSE The({insert_one_sided_after(r, found[1], ideal_index,
                           key_data[found[1]].data[1], key_data[found[1]].data[2],
                           key_data[found[1]].data[3], len) :
                        r \in {insert_one_sided(
                                   key_data[found[1]].data[1],
                                   [key_data EXCEPT ![found[1]].data =
                                       <<key, usize_max_value, ideal_index>>],
                                   value_data, hasher,
                                   stack \cup {<<key, key_data>>})}}) :
                found \in {nearest}})

insert_one_sided(key, key_data, value_data, hasher, stack) ==
    The({IF <<key, key_data>> \in stack
         THEN IosResult("Diverge", 0, key_data, value_data, 0)
         ELSE IF full(key_data[ideal_index].neighbourhood)
         THEN IosResult("Err", 0, key_data, value_data, 0)
         ELSE The({IF nearest = None
                   THEN \* there is no free space
                        IosResult("Err", 0, key_data, value_data, 0)
                   ELSE IF nearest[1] < W
                   THEN \* insert and we're done
                        LET index == (nearest[1] + ideal_index) % len
                        IN  IosResult("Ok", index,
                                [mark_as_full(ideal_index, index, key_data)
                                    EXCEPT ![index].data =
                                        <<key, usize_max_value, ideal_index>>],
                                value_data, 0)
                   ELSE insert_one_sided_far(key, key_data, value_data, hasher,
                                             stack, ideal_index, len) :
                      nearest \in {nearest_free(key_data, ideal_index, len)}}) :
            len \in {ArrLen(key_data)},
            ideal_index \in {find_ideal_index(key, hasher, ArrLen(key_data))}})

(***************************************************************************)
(* lib.rs: BiMap::invariants.  TRUE when every assertion passes; a failed  *)
(* assertion, an index out of bounds or an unwrap of None is a panic.      *)
(***************************************************************************)
Occupied(data) == {i \in DOMAIN data : data[i].data # None}

\* lines 162-183, for one of the two arrays
ideal_indexes_stored(data, hasher) ==
    \A len \in {ArrLen(data)} :
        \A i \in Occupied(data) :
            LET key == data[i].data[1]
                ideal == data[i].data[3]
            IN  /\ find_ideal_index(key, hasher, len) = ideal
                /\ ~ShiftOverflows((len + i - ideal) % len)
                /\ full(BitOr(data[ideal].neighbourhood,
                              zero_at((len + i - ideal) % len)))

\* lines 186-201, for one of the two arrays
matches_exist(data, other) ==
    \A len \in {ArrLen(other)} :
        \A i \in Occupied(data) :
            LET value == data[i].data[2]
            IN  /\ value < len
                /\ other[value].data # None
                /\ other[value].data[2] = i

invariants(self) ==
    /\ ArrLen(self.left_data) = ArrLen(self.right_data)
    /\ ideal_indexes_stored(self.left_data, self.left_hasher)
    /\ ideal_indexes_stored(self.right_data, self.right_hasher)
    /\ matches_exist(self.left_data, self.right_data)
    /\ matches_exist(self.right_data, self.left_data)
    /\ Cardinality(Occupied(self.left_data)) = self.len
    /\ Cardinality(Occupied(self.right_data)) = self.len

(***************************************************************************)
(* iterator.rs: IntoIter, the draining iterator the resize uses.           *)
(***************************************************************************)
\* IntoIter::next on the state [left_data, right_data, index]: tag "some"
\* with the item and the next state, "none" at the end, "panic" when an
\* index or an unwrap fails.  The loop stops at the first occupied left
\* bucket from index on.
IntoIter_next(it) ==
    The({IF rest = {} THEN [tag |-> "none", item |-> << >>, it |-> it]
         ELSE The({IF \/ it.left_data[at].data[2] >= ArrLen(it.right_data)
                      \/ it.right_data[it.left_data[at].data[2]].data = None
                   THEN [tag |-> "panic", item |-> << >>, it |-> it]
                   ELSE [tag |-> "some",
                         item |-> <<it.left_data[at].data[1],
                                    it.right_data[it.left_data[at].data[2]].data[1]>>,
                         it |-> [left_data |->
                                     [it.left_data EXCEPT ![at].data = None],
                                 right_data |->
                                     [it.right_data EXCEPT
                                         ![it.left_data[at].data[2]].data = None],
                                 index |-> at + 1]] :
                      at \in {CHOOSE i \in rest : \A j \in rest : i <= j}}) :
            rest \in {{i \in Occupied(it.left_data) : i >= it.index}}})

\* IntoIter::new with a fault: the iteration starts after the first bucket
IntoIter_new_after_first(left_data, right_data) ==
    [left_data |-> left_data, right_data |-> right_data, index |-> 1]

IntoIter_new(left_data, right_data) ==
    [left_data |-> left_data, right_data |-> right_data, index |-> 0]

\* The items an IntoIter yields from its index on, in order, and whether
\* next panicked on the way: one item per occupied left bucket in the order of
\* the indexes; a right bucket that is out of bounds, empty or was taken for
\* an earlier item makes the unwrap of line 84 panic.
IntoIter_items(it) ==
    The({[tag |-> IF \A i \in occ :
                       /\ it.left_data[i].data[2] < ArrLen(it.right_data)
                       /\ it.right_data[it.left_data[i].data[2]].data # None
                       /\ \A j \in occ : j < i =>
                              it.left_data[j].data[2] # it.left_data[i].data[2]
                  THEN "ok" ELSE "panic",
          items |-> [k \in 1..Cardinality(occ) |->
                        The({IntoIter_next([it EXCEPT !.index = i]).item :
                                i \in {j \in occ :
                                          Cardinality({h \in occ : h < j}) = k - 1}})]] :
            occ \in {{i \in Occupied(it.left_data) : i >= it.index}}})

(***************************************************************************)
(* iterator.rs: Iter, the borrowing iterator.  The slice iterator over     *)
(* left_data is kept as the index of the bucket it yields next.            *)
(***************************************************************************)
\* Iter::new with a fault: the slice iterator has passed the first bucket
Iter_new_after_first(left_data, right_data) ==
    [left_data |-> left_data, right_data |-> right_data, index |-> 1]

Iter_new(left_data, right_data) ==
    [left_data |-> left_data, right_data |-> right_data, index |-> 0]

\* line 43 with a fault: the right key is read from the bucket at the
\* position of the left key, not from the bucket the pair index names
Iter_pair_same_index(it, at) ==
    IF \/ at >= ArrLen(it.right_data)
       \/ it.right_data[at].data = None
    THEN [tag |-> "panic", item |-> << >>]
    ELSE [tag |-> "some",
          item |-> <<it.left_data[at].data[1], it.right_data[at].data[1]>>]

\* line 43, the closure of map on the occupied left bucket at: the left key
\* and the key of the right bucket its pair index names; the index and the
\* unwrap panic on a bucket out of bounds or empty
Iter_pair(it, at) ==
    IF \/ it.left_data[at].data[2] >= ArrLen(it.right_data)
       \/ it.right_data[it.left_data[at].data[2]].data = None
    THEN [tag |-> "panic", item |-> << >>]
    ELSE [tag |-> "some",
          item |-> <<it.left_data[at].data[1],
                     it.right_data[it.left_data[at].data[2]].data[1]>>]

\* Iter::next: tag "some" with the item and the next state, "none" at the
\* end, "panic".  filter_map skips the empty buckets.
Iter_next(it) ==
    The({IF rest = {}
         THEN [tag |-> "none", item |-> << >>,
               it |-> [it EXCEPT !.index = ArrLen(it.left_data)]]
         ELSE The({[tag |-> Iter_pair(it, at).tag,
                    item |-> Iter_pair(it, at).item,
                    it |-> [it EXCEPT !.index = at + 1]] :
                      at \in {CHOOSE i \in rest : \A j \in rest : i <= j}}) :
            rest \in {{i \in Occupied(it.left_data) : i >= it.index}}})

\* The items an Iter yields from its index on, in order, and whether next
\* panicked on the way: one item per occupied left bucket, in the order of
\* the indexes.
Iter_items(it) ==
    The({[tag |-> IF \A i \in occ : Iter_pair(it, i).tag = "some"
                  THEN "ok" ELSE "panic",
          items |-> [k \in 1..Cardinality(occ) |->
                        The({Iter_next([it EXCEPT !.index = i]).item :
                                i \in {j \in occ :
                                          Cardinality({h \in occ : h < j}) = k - 1}})]] :
            occ \in {{i \in Occupied(it.left_data) : i >= it.index}}})

(***************************************************************************)
(* lib.rs: BiMap::insert.  `self` is the record of the struct's fields.    *)
(* A call ends "ok" (it returned), "panic", "diverge" (a recursion that    *)
(* never returns) or "limit" (a resize beyond MaxLen, not followed).       *)
(***************************************************************************)
\* value_of with a fault: the key that was looked up, not its partner
value_of_own_key(ret) == IF ret = None THEN None ELSE Some(ret[1][1])

\* the Option<(K, V)> of remove as the Option of its key / of its value
key_of(ret) == IF ret = None THEN None ELSE Some(ret[1][1])

value_of(ret) == IF ret = None THEN None ELSE Some(ret[1][2])

\* insert_dedup_right with a fault: the pair of the right key stays
insert_dedup_right_kept(s1, right, first) ==
    [tag |-> "ok", self |-> s1, output |-> <<first, None>>]

\* lines 363-371 and 375-383: remove the pair of the right key
insert_dedup_right(s1, right, first) ==
    The({IF r2.tag = "panic"
         THEN [tag |-> "panic", self |-> s1, output |-> <<None, None>>]
         ELSE [tag |-> "ok",
               self |-> [s1 EXCEPT !.len = r2.map_len, !.right_data = r2.key_data,
                                   !.left_data = r2.value_data],
               output |-> <<first, value_of(r2.ret)>>] :
            r2 \in {remove(right, s1.right_data, s1.left_data,
                           s1.right_hasher, s1.left_hasher, s1.len)}})

\* insert_dedup with a fault: the pair of the left key stays
insert_dedup_left_kept(self, left, right) ==
    insert_dedup_right(self, right, None)

\* lines 349-385: remove the pairs the two keys are in; the output
insert_dedup(self, left, right) ==
    The({IF r1.tag = "panic"
         THEN [tag |-> "panic", self |-> self, output |-> <<None, None>>]
         ELSE IF r1.ret # None /\ r1.ret[1][2] = right
         THEN [tag |-> "ok",
               self |-> [self EXCEPT !.len = r1.map_len, !.left_data = r1.key_data,
                                     !.right_data = r1.value_data],
               output |-> <<Some(r1.ret[1][2]), Some(r1.ret[1][1])>>]
         ELSE insert_dedup_right(
                  [self EXCEPT !.len = r1.map_len, !.left_data = r1.key_data,
                               !.right_data = r1.value_data],
                  right, value_of(r1.ret)) :
            r1 \in {remove(left, self.left_data, self.right_data,
                           self.left_hasher, self.right_hasher, self.len)}})

PlaceResult(tag, self, failure, hops) ==
    [tag |-> tag, self |-> self, failure |-> failure, hops |-> hops]

\* insert_place_right with a fault in lines 416-418: the left key is taken
\* out again but its bit is not cleared
insert_place_right_bit_kept(self, right, l) ==
    The({IF r.tag = "Ok"
         THEN PlaceResult("ok",
                  [self EXCEPT !.right_data = [r.key_data EXCEPT
                                                  ![r.index].data[2] = l.index],
                               !.left_data = [r.value_data EXCEPT
                                                  ![l.index].data[2] = r.index],
                               !.len = @ + 1],
                  FALSE, l.hops + r.hops)
         ELSE PlaceResult(IF r.tag = "Err" THEN "ok"
                          ELSE IF r.tag = "Panic" THEN "panic" ELSE "diverge",
                  [self EXCEPT !.right_data = r.key_data,
                               !.left_data =
                                   [r.value_data EXCEPT ![l.index].data = None]],
                  TRUE, l.hops + r.hops) :
            r \in {insert_one_sided(right, self.right_data, l.key_data,
                                    self.right_hasher, {})}})

\* lines 404-420: the left key is placed at l.index; place the right key
insert_place_right(self, right, l) ==
    The({IF r.tag = "Ok"
         THEN PlaceResult("ok",
                  [self EXCEPT !.right_data = [r.key_data EXCEPT
                                                  ![r.index].data[2] = l.index],
                               !.left_data = [r.value_data EXCEPT
                                                  ![l.index].data[2] = r.index],
                               !.len = @ + 1],
                  FALSE, l.hops + r.hops)
         ELSE IF r.tag = "Err"
         THEN PlaceResult("ok",
                  [self EXCEPT !.right_data = r.key_data,
                               !.left_data =
                                   mark_as_empty(r.value_data[l.index].data[3], l.index,
                                       [r.value_data EXCEPT ![l.index].data = None])],
                  TRUE, l.hops + r.hops)
         ELSE PlaceResult(IF r.tag = "Panic" THEN "panic" ELSE "diverge",
                          [self EXCEPT !.right_data = r.key_data,
                                       !.left_data = r.value_data],
                          TRUE, l.hops + r.hops) :
            r \in {insert_one_sided(right, self.right_data, l.key_data,
                                    self.right_hasher, {})}})

\* lines 389-428: the load check and the two placements; failure is TRUE
\* when the keys are handed back for a resize
insert_place(self, left, right) ==
    IF F32Ge(F32Mul(MAX_LOAD_FACTOR, F32FromInt(self.len)),
            F32FromInt(ArrLen(self.left_data)))
    THEN PlaceResult("ok", self, TRUE, 0)
    ELSE The({IF l.tag = "Ok"
              THEN insert_place_right([self EXCEPT !.right_data = l.value_data],
                                      right, l)
              ELSE PlaceResult(IF l.tag = "Err" THEN "ok"
                               ELSE IF l.tag = "Panic" THEN "panic" ELSE "diverge",
                               [self EXCEPT !.left_data = l.key_data,
                                            !.right_data = l.value_data],
                               TRUE, l.hops) :
                 l \in {insert_one_sided(left, self.left_data, self.right_data,
                                         self.left_hasher, {})}})

InsertResult(tag, self, output, resizes, hops) ==
    [tag |-> tag, self |-> self, output |-> output,
     resizes |-> resizes, hops |-> hops]

RECURSIVE insert(_, _, _)
\* lines 439-443 and 740-744: `for (left, right) in pairs { self.insert(left,
\* right); }`, with the resizes and relocations made and whether every insert
\* returned (None, None).  The pairs are taken in order; the sequence is split
\* in two only to keep the evaluation shallow.
RECURSIVE insert_each(_, _)
insert_each(acc, pairs) ==
    IF pairs = << >> \/ acc.tag # "ok" THEN acc
    ELSE IF Len(pairs) = 1
    THEN The({[tag |-> r.tag, self |-> r.self,
               resizes |-> acc.resizes + r.resizes,
               hops |-> acc.hops + r.hops,
               none |-> acc.none /\ r.output = <<None, None>>] :
                 r \in {insert(acc.self, pairs[1][1], pairs[1][2])}})
    ELSE The({insert_each(half, SubSeq(pairs, Len(pairs) \div 2 + 1, Len(pairs))) :
                 half \in {insert_each(acc, SubSeq(pairs, 1, Len(pairs) \div 2))}})

\* insert_resize with a fault in line 435: the new arrays have
\* RESIZE_GROWTH_FACTOR + 1 times the old length
insert_resize_tripled(p, left, right, output) ==
    IF ArrLen(p.self.left_data) * (RESIZE_GROWTH_FACTOR + 1) > MaxLen
    THEN InsertResult("limit", p.self, output, 0, p.hops)
    ELSE The({IF old.tag = "panic" \/ e.tag # "ok"
              THEN InsertResult(IF old.tag = "panic" THEN "panic" ELSE e.tag,
                                e.self, output, e.resizes, e.hops)
              ELSE IF ~invariants(e.self)
              THEN InsertResult("panic", e.self, output, e.resizes, e.hops)
              ELSE InsertResult("ok", e.self, output, e.resizes, e.hops) :
                 old \in {IntoIter_items(IntoIter_new(p.self.left_data,
                                                      p.self.right_data))},
                 e \in {insert_each(
                            [tag |-> "ok",
                             self |-> [p.self EXCEPT
                                 !.len = 0,
                                 !.left_data = empty_vec(
                                     ArrLen(p.self.left_data) * (RESIZE_GROWTH_FACTOR + 1)),
                                 !.right_data = empty_vec(
                                     ArrLen(p.self.left_data) * (RESIZE_GROWTH_FACTOR + 1))],
                             resizes |-> 1, hops |-> p.hops, none |-> TRUE],
                            <<<<left, right>>>> \o
                                IntoIter_items(IntoIter_new(p.self.left_data,
                                                            p.self.right_data)).items)}})

\* lines 432-446: resize, as we were unable to insert
insert_resize(p, left, right, output) ==
    IF ArrLen(p.self.left_data) * RESIZE_GROWTH_FACTOR > MaxLen
    THEN InsertResult("limit", p.self, output, 0, p.hops)
    ELSE The({IF old.tag = "panic" \/ e.tag # "ok"
              THEN InsertResult(IF old.tag = "panic" THEN "panic" ELSE e.tag,
                                e.self, output, e.resizes, e.hops)
              ELSE IF ~invariants(e.self)
              THEN InsertResult("panic", e.self, output, e.resizes, e.hops)
              ELSE InsertResult("ok", e.self, output, e.resizes, e.hops) :
                 old \in {IntoIter_items(IntoIter_new(p.self.left_data,
                                                      p.self.right_data))},
                 e \in {insert_each(
                            [tag |-> "ok",
                             self |-> [p.self EXCEPT
                                 !.len = 0,
                                 !.left_data = empty_vec(
                                     ArrLen(p.self.left_data) * RESIZE_GROWTH_FACTOR),
                                 !.right_data = empty_vec(
                                     ArrLen(p.self.left_data) * RESIZE_GROWTH_FACTOR)],
                             resizes |-> 1, hops |-> p.hops, none |-> TRUE],
                            <<<<left, right>>>> \o
                                IntoIter_items(IntoIter_new(p.self.left_data,
                                                            p.self.right_data)).items)}})

\* lines 387-446, after the removals d
insert_after_dedup(d, left, right) ==
    IF d.tag # "ok" THEN InsertResult(d.tag, d.self, d.output, 0, 0)
    ELSE IF ~invariants(d.self) THEN InsertResult("panic", d.self, d.output, 0, 0)
    ELSE The({IF p.tag # "ok" THEN InsertResult(p.tag, p.self, d.output, 0, p.hops)
              ELSE IF ~invariants(p.self)
              THEN InsertResult("panic", p.self, d.output, 0, p.hops)
              ELSE IF ~p.failure THEN InsertResult("ok", p.self, d.output, 0, p.hops)
              ELSE insert_resize(p, left, right, d.output) :
                 p \in {insert_place(d.self, left, right)}})

insert(self, left, right) ==
    IF ~invariants(self) THEN InsertResult("panic", self, <<None, None>>, 0, 0)
    ELSE The({insert_after_dedup(d, left, right) :
                 d \in {insert_dedup(self, left, right)}})

(***************************************************************************)
(* lib.rs: the public lookups and removals.  Each starts with              *)
(* self.invariants().                                                      *)
(***************************************************************************)
\* get_left and get_right after self.invariants(), which passed or panicked
get_left_checked(self, passed, left) ==
    IF ~passed THEN [tag |-> "panic", ret |-> None]
    ELSE get(left, self.left_data, self.right_data, self.left_hasher)

get_right_checked(self, passed, right) ==
    IF ~passed THEN [tag |-> "panic", ret |-> None]
    ELSE get(right, self.right_data, self.left_data, self.right_hasher)

\* lines 685-696, IntoIterator for &BiMap, and lines 142-144, iter
BiMap_iter(self) == Iter_new(self.left_data, self.right_data)

\* lines 699-711, IntoIterator for BiMap
into_iter(self) == IntoIter_new(self.left_data, self.right_data)

\* lines 89-91
capacity(self) == FloorDivLoad(ArrLen(self.left_data))

\* lines 111-113 and 125-127
BiMap_len(self) == self.len

is_empty(self) == self.len = 0

\* lines 659-660 with a fault: the keys are looked up in other but what they
\* are paired with is not compared
eq_pair_present(other, passed, left, right) ==
    The({IF l.tag # "ok" THEN "panic"
         ELSE IF l.ret = None THEN "false"
         ELSE The({IF r.tag # "ok" THEN "panic"
                   ELSE IF r.ret = None THEN "false"
                   ELSE "true" :
                      r \in {get_right_checked(other, passed, right)}}) :
            l \in {get_left_checked(other, passed, left)}})

\* lines 659-660, the closure of all: "true", "false" or "panic"; && does
\* not look up the right key when the left one fails
eq_pair(other, passed, left, right) ==
    The({IF l.tag # "ok" THEN "panic"
         ELSE IF l.ret # Some(right) THEN "false"
         ELSE The({IF r.tag # "ok" THEN "panic"
                   ELSE IF r.ret # Some(left) THEN "false"
                   ELSE "true" :
                      r \in {get_right_checked(other, passed, right)}}) :
            l \in {get_left_checked(other, passed, left)}})

\* lines 657-662, PartialEq::eq: all stops at the first pair that is not
\* found in other, or panics at the first call that panics
eq(self, other) ==
    IF BiMap_len(self) # BiMap_len(other) THEN [tag |-> "ok", ret |-> FALSE]
    ELSE The({The({IF first = {} THEN [tag |-> "ok", ret |-> TRUE]
                   ELSE IF \E k \in first : outcome[k] = "panic"
                   THEN [tag |-> "panic", ret |-> FALSE]
                   ELSE [tag |-> "ok", ret |-> FALSE] :
                      first \in {{k \in DOMAIN outcome :
                                     /\ outcome[k] # "true"
                                     /\ \A h \in 1..(k - 1) :
                                            outcome[h] = "true"}}}) :
                 outcome \in {The({[k \in DOMAIN items |->
                                       IF items[k] = << >> THEN "panic"
                                       ELSE eq_pair(other, passed,
                                                    items[k][1], items[k][2])] :
                                      items \in {Iter_items(BiMap_iter(self)).items},
                                      passed \in {invariants(other)}})}})

get_left(self, left) == get_left_checked(self, invariants(self), left)

get_right(self, right) == get_right_checked(self, invariants(self), right)

\* remove_left with a fault: the count of pairs is not written back
remove_left_len_kept(self, left) ==
    IF ~invariants(self) THEN [tag |-> "panic", self |-> self, ret |-> None]
    ELSE The({IF r.tag = "panic" THEN [tag |-> "panic", self |-> self, ret |-> None]
              ELSE [tag |-> "ok",
                    self |-> [self EXCEPT !.left_data = r.key_data,
                                          !.right_data = r.value_data],
                    ret |-> value_of(r.ret)] :
                 r \in {remove(left, self.left_data, self.right_data,
                               self.left_hasher, self.right_hasher, self.len)}})

remove_left(self, left) ==
    IF ~invariants(self) THEN [tag |-> "panic", self |-> self, ret |-> None]
    ELSE The({IF r.tag = "panic" THEN [tag |-> "panic", self |-> self, ret |-> None]
              ELSE [tag |-> "ok",
                    self |-> [self EXCEPT !.len = r.map_len,
                                          !.left_data = r.key_data,
                                          !.right_data = r.value_data],
                    ret |-> value_of(r.ret)] :
                 r \in {remove(left, self.left_data, self.right_data,
                               self.left_hasher, self.right_hasher, self.len)}})

\* remove_right with a fault: the left key of the pair stays in its bucket
remove_right_left_kept(self, right) ==
    IF ~invariants(self) THEN [tag |-> "panic", self |-> self, ret |-> None]
    ELSE The({IF r.tag = "panic" THEN [tag |-> "panic", self |-> self, ret |-> None]
              ELSE [tag |-> "ok",
                    self |-> [self EXCEPT !.len = r.map_len,
                                          !.right_data = r.key_data],
                    ret |-> value_of(r.ret)] :
                 r \in {remove(right, self.right_data, self.left_data,
                               self.right_hasher, self.left_hasher, self.len)}})

remove_right(self, right) ==
    IF ~invariants(self) THEN [tag |-> "panic", self |-> self, ret |-> None]
    ELSE The({IF r.tag = "panic" THEN [tag |-> "panic", self |-> self, ret |-> None]
              ELSE [tag |-> "ok",
                    self |-> [self EXCEPT !.len = r.map_len,
                                          !.right_data = r.key_data,
                                          !.left_data = r.value_data],
                    ret |-> value_of(r.ret)] :
                 r \in {remove(right, self.right_data, self.left_data,
                               self.right_hasher, self.left_hasher, self.len)}})

(***************************************************************************)
(* The hash functions the maps are built with: a BuildHasher is any        *)
(* function from keys to u64.  Three of them are tried on each side.       *)
(***************************************************************************)
\* every key in a bucket of its own
HashSpread == [k \in Keys |-> k]

\* all keys in bucket 0 of the initial 36 buckets and of 72 buckets; two
\* buckets share them from 144 buckets on
HashCollide == [k \in Keys |-> 2 * CeilTimesLoad(DEFAULT_HASH_MAP_SIZE) * k]

\* the first W keys in buckets 0..W-1, the others in bucket 0 of the initial
\* 36 buckets
HashCluster ==
    [k \in Keys |-> IF k <= W THEN k - 1
                    ELSE CeilTimesLoad(DEFAULT_HASH_MAP_SIZE) * (k - W)]

\* every key of the maps filled up to their load limit in a bucket of its own
HashWide == [k \in 1..NumLoadKeys |-> k]

Hashers == {HashSpread, HashCollide, HashCluster}

\* BiMapBuilder::capacity: the capacities maps are built with
Capacities == {0, DEFAULT_HASH_MAP_SIZE}

(***************************************************************************)
(* The state: the fields of the BiMap, and about the calls made so far     *)
(*   status  "ok", or how the last call ended if it did not return         *)
(*   last    the last call: its name, arguments, returned value, and the   *)
(*           number of resizes and relocations it made                     *)
(*   fresh   whether every call so far was an insert of a left and a right *)
(*           key that no earlier insert used, with (while that is so) the  *)
(*           keys used, the number of inserts and whether all returned     *)
(*           (None, None)                                                  *)
(*   calls   the number of calls made on the map since it was built        *)
(*   requested  the capacity the builder was given                         *)
(*   other   a second map, built apart with the same pairs in another      *)
(*           order, to compare the map with                                *)
(*   bf      a bitfield with the BitFieldIterator made from it and what it *)
(*           has yielded (only the bitfield behaviours change it)          *)
(***************************************************************************)
VARIABLES len, left_data, right_data, left_hasher, right_hasher,
          status, last, fresh, calls, requested, other, bf

vars == <<len, left_data, right_data, left_hasher, right_hasher,
          status, last, fresh, calls, requested, other, bf>>

fields == <<len, left_data, right_data, left_hasher, right_hasher>>

Self ==
    [len |-> len, left_data |-> left_data, right_data |-> right_data,
     left_hasher |-> left_hasher, right_hasher |-> right_hasher]

NotFresh == [on |-> FALSE, lefts |-> {}, rights |-> {}, count |-> 0, none |-> FALSE]

\* lines 740-744, Extend::extend: the pairs are inserted in order
extend(self, pairs) ==
    insert_each([tag |-> "ok", self |-> self, resizes |-> 0, hops |-> 0,
                 none |-> TRUE],
                pairs)

\* A bitfield b with a new iterator over it
BitFieldOf(b, op, index) ==
    [bits |-> b, op |-> op, index |-> index, it |-> BitFieldIterator_new(b),
     yielded |-> << >>, ended |-> FALSE]

\* n pairs (k, k), from the largest k down
Descending(n) == [k \in 1..n |-> <<n + 1 - k, n + 1 - k>>]

\* The n - 1 largest of the pairs (k, k) with k in 1..n, from the largest k
\* down, then key 1 and key NumKeys - 1 paired with each other crosswise
Crossed(n) ==
    IF n = 0 THEN << >>
    ELSE [k \in 1..(n + 1) |->
             IF k < n THEN <<n + 1 - k, n + 1 - k>>
             ELSE IF k = n THEN <<1, NumKeys - 1>>
             ELSE <<NumKeys - 1, 1>>]

\* The state right after the map of m was built with capacity cap and
\* extended with n pairs, and the map of o was built.
Built(m, n, cap, o) ==
    /\ m.tag = "ok"
    /\ o.tag = "ok"
    /\ requested = cap
    /\ other = o.self
    /\ len = m.self.len
    /\ left_data = m.self.left_data
    /\ right_data = m.self.right_data
    /\ left_hasher = m.self.left_hasher
    /\ right_hasher = m.self.right_hasher
    /\ status = "ok"
    /\ last = [op |-> "new", left |-> 0, right |-> 0, ret |-> None,
               resizes |-> 0, hops |-> 0]
    /\ fresh = [on |-> TRUE, lefts |-> 1..n, rights |-> 1..n,
                count |-> n, none |-> m.none]
    /\ calls = 0

\* A freshly built map, empty or extended with the background pairs.
Init ==
    \E lh \in Hashers, rh \in Hashers, cap \in Capacities,
       n \in {0, NumKeys - 2} :
        /\ cap = 0 => n = 0
        /\ \E m \in {extend(finish(cap, lh, rh), [k \in 1..n |-> <<k, k>>])},
              o \in {extend(finish(DEFAULT_HASH_MAP_SIZE, rh, lh), Crossed(n))} :
               Built(m, n, cap, o) /\ bf = BitFieldOf(0, "new", 0)

\* A call is made: the map is usable and the bound on calls is not reached.
Call ==
    /\ status = "ok"
    /\ calls < MaxCalls
    /\ calls' = calls + 1
    /\ UNCHANGED <<requested, other, bf>>

SetFields(self) ==
    /\ len' = self.len
    /\ left_data' = self.left_data
    /\ right_data' = self.right_data
    /\ UNCHANGED <<left_hasher, right_hasher>>

\* A call that does not return leaves no map to look at: the fields keep
\* their values of before the call and no further call is made.
Insert(a, b) ==
    /\ Call
    /\ \E r \in {insert(Self, a, b)} :
           /\ r.tag # "limit"
           /\ status' = r.tag
           /\ IF r.tag = "ok" THEN SetFields(r.self) ELSE UNCHANGED fields
           /\ last' = [op |-> "insert", left |-> a, right |-> b,
                       ret |-> IF r.tag = "ok" THEN r.output ELSE None,
                       resizes |-> r.resizes, hops |-> r.hops]
           /\ fresh' = IF fresh.on /\ a \notin fresh.lefts /\ b \notin fresh.rights
                       THEN [on |-> TRUE, lefts |-> fresh.lefts \cup {a},
                             rights |-> fresh.rights \cup {b},
                             count |-> fresh.count + 1,
                             none |-> /\ fresh.none
                                      /\ r.tag = "ok"
                                      /\ r.output = <<None, None>>]
                       ELSE NotFresh

RemoveLeft(a) ==
    /\ Call
    /\ \E r \in {remove_left(Self, a)} :
           /\ status' = r.tag
           /\ IF r.tag = "ok" THEN SetFields(r.self) ELSE UNCHANGED fields
           /\ last' = [op |-> "remove_left", left |-> a, right |-> 0,
                       ret |-> r.ret, resizes |-> 0, hops |-> 0]
           /\ fresh' = NotFresh

RemoveRight(b) ==
    /\ Call
    /\ \E r \in {remove_right(Self, b)} :
           /\ status' = r.tag
           /\ IF r.tag = "ok" THEN SetFields(r.self) ELSE UNCHANGED fields
           /\ last' = [op |-> "remove_right", left |-> 0, right |-> b,
                       ret |-> r.ret, resizes |-> 0, hops |-> 0]
           /\ fresh' = NotFresh

GetLeft(a) ==
    /\ Call
    /\ \E r \in {get_left(Self, a)} :
           /\ status' = r.tag
           /\ last' = [op |-> "get_left", left |-> a, right |-> 0,
                       ret |-> r.ret, resizes |-> 0, hops |-> 0]
           /\ UNCHANGED <<fields, fresh>>

GetRight(b) ==
    /\ Call
    /\ \E r \in {get_right(Self, b)} :
           /\ status' = r.tag
           /\ last' = [op |-> "get_right", left |-> 0, right |-> b,
                       ret |-> r.ret, resizes |-> 0, hops |-> 0]
           /\ UNCHANGED <<fields, fresh>>

Next ==
    \/ \E a \in ActKeys, b \in ActKeys : Insert(a, b)
    \/ \E a \in ActKeys : RemoveLeft(a)
    \/ \E b \in ActKeys : RemoveRight(b)
    \/ \E a \in ActKeys : GetLeft(a)
    \/ \E b \in ActKeys : GetRight(b)

Spec == Init /\ [][Next]_vars

(***************************************************************************)
(* Maps filled up to their load limit: built with the default capacity,    *)
(* extended with NumLoadKeys - 4 to NumLoadKeys - 2 pairs, and then called *)
(* with the first key and the last two.                                    *)
(***************************************************************************)
LoadActKeys == {k \in 1..NumLoadKeys : k = 1 \/ k > NumLoadKeys - 2}

LoadInit ==
    \E n \in (NumLoadKeys - 4)..(NumLoadKeys - 2) :
        \E m \in {extend(finish(DEFAULT_HASH_MAP_SIZE, HashWide, HashWide),
                         [k \in 1..n |-> <<k, k>>])},
           o \in {extend(finish(DEFAULT_HASH_MAP_SIZE, HashWide, HashWide),
                         Descending(n))} :
            Built(m, n, DEFAULT_HASH_MAP_SIZE, o) /\ bf = BitFieldOf(0, "new", 0)

LoadNext ==
    \/ \E a \in LoadActKeys, b \in LoadActKeys : Insert(a, b)
    \/ \E a \in LoadActKeys : RemoveLeft(a)
    \/ \E b \in LoadActKeys : RemoveRight(b)
    \/ \E a \in LoadActKeys : GetLeft(a)
    \/ \E b \in LoadActKeys : GetRight(b)

LoadSpec == LoadInit /\ [][LoadNext]_vars

(***************************************************************************)
(* The properties of the contract.                                         *)
(***************************************************************************)
OkSome(v) == [tag |-> "ok", ret |-> Some(v)]

OkNone == [tag |-> "ok", ret |-> None]

\* the step is a call of insert / remove_left / remove_right
InsertStep == calls' = calls + 1 /\ last'.op = "insert"

RemoveLeftStep == calls' = calls + 1 /\ last'.op = "remove_left"

RemoveRightStep == calls' = calls + 1 /\ last'.op = "remove_right"

\* C1: after any sequence of calls that returned, no two occupied left
\* buckets hold equal left keys and no two occupied right buckets hold equal
\* right keys.
OneToOne ==
    status = "ok" =>
        /\ \A i, j \in Occupied(left_data) :
               left_data[i].data[1] = left_data[j].data[1] => i = j
        /\ \A i, j \in Occupied(right_data) :
               right_data[i].data[1] = right_data[j].data[1] => i = j

\* an insert returned that put both of its keys out of older pairs
OneToOneWitness ==
    /\ status = "ok"
    /\ last.op = "insert"
    /\ last.ret[1] # None /\ last.ret[1] # Some(last.right)
    /\ last.ret[2] # None /\ last.ret[2] # Some(last.left)
    /\ len > 1

\* C2: right after insert(a, b) returned, get_left(a) is Some(b) and
\* get_right(b) is Some(a), whatever the insert had to relocate or resize.
GetAfterInsert ==
    (last.op = "insert" /\ status = "ok") =>
        /\ get_left(Self, last.left) = OkSome(last.right)
        /\ get_right(Self, last.right) = OkSome(last.left)

\* an insert returned after resizing twice, and its pair is found
GetAfterInsertWitness ==
    /\ last.op = "insert" /\ status = "ok"
    /\ last.resizes >= 2
    /\ get_left(Self, last.left) = OkSome(last.right)

\* C3: every call insert(a, b) returns, and what it returns is
\* (get_left(a), get_right(b)) of the map before the call.
InsertReturnsOld ==
    [][(InsertStep /\ ArrLen(left_data) > 0) =>
           /\ status' = "ok"
           /\ last'.ret = <<get_left(Self, last'.left).ret,
                            get_right(Self, last'.right).ret>>]_vars

\* C4: from the empty map, inserts of pairwise distinct left keys and
\* pairwise distinct right keys all return (None, None), and len is their
\* number.
InsertUnique ==
    (fresh.on /\ ArrLen(left_data) > 0) => (fresh.none /\ len = fresh.count)

\* C5: a pair (a, b) of the map is still found from both sides after an
\* insert that returned and used neither a nor b.
InsertKeepsOthers ==
    [][(InsertStep /\ status' = "ok") =>
           \A pre \in {invariants(Self)}, post \in {invariants(Self')} :
               \A a \in Keys \ {last'.left} :
                   \A old \in {get_left_checked(Self, pre, a).ret} :
                       (old # None /\ old # Some(last'.right)) =>
                           /\ get_left_checked(Self', post, a) = OkSome(old[1])
                           /\ get_right_checked(Self', post, old[1]) = OkSome(a)]_vars

\* an insert relocated keys, one resized, and an older pair is still found
InsertKeepsOthersWitness ==
    /\ last.op = "insert" /\ status = "ok"
    /\ last.hops >= 1 \/ last.resizes >= 1
    /\ \E a \in BackgroundKeys \ {last.left, last.right} :
           /\ get_left(Self, a) = OkSome(a)
           /\ get_right(Self, a) = OkSome(a)

\* C6: when insert(a, b) returned and a was paired with another right key,
\* or b with another left key, that other key is found no more.
EvictedGone ==
    [][(InsertStep /\ status' = "ok") =>
           /\ \A old \in {get_left(Self, last'.left).ret} :
                  (old # None /\ old # Some(last'.right)) =>
                      get_right(Self', old[1]) = OkNone
           /\ \A old \in {get_right(Self, last'.right).ret} :
                  (old # None /\ old # Some(last'.left)) =>
                      get_left(Self', old[1]) = OkNone]_vars

\* an insert returned the old partner of its left key, which is found no more
EvictedGoneWitness ==
    /\ last.op = "insert" /\ status = "ok"
    /\ last.ret[1] # None /\ last.ret[1] # Some(last.right)
    /\ get_right(Self, last.ret[1][1]) = OkNone

\* C7: with (a, b) in the map, remove_left(a) returns Some(b) and
\* remove_right(b) returns Some(a); after either, neither key is found, len
\* is one less, and every other pair is found from both sides.
RemoveContract ==
    [][\A pre \in {invariants(Self)}, post \in {invariants(Self')} :
        /\ RemoveLeftStep =>
            \A old \in {get_left_checked(Self, pre, last'.left).ret} :
                old # None =>
                    /\ status' = "ok"
                    /\ last'.ret = old
                    /\ get_left_checked(Self', post, last'.left) = OkNone
                    /\ get_right_checked(Self', post, old[1]) = OkNone
                    /\ len' = len - 1
                    /\ \A a \in Keys \ {last'.left} :
                           \A b \in {get_left_checked(Self, pre, a).ret} :
                               b # None =>
                                   /\ get_left_checked(Self', post, a) = OkSome(b[1])
                                   /\ get_right_checked(Self', post, b[1]) = OkSome(a)
        /\ RemoveRightStep =>
            \A old \in {get_right_checked(Self, pre, last'.right).ret} :
                old # None =>
                    /\ status' = "ok"
                    /\ last'.ret = old
                    /\ get_right_checked(Self', post, last'.right) = OkNone
                    /\ get_left_checked(Self', post, old[1]) = OkNone
                    /\ len' = len - 1
                    /\ \A b \in Keys \ {last'.right} :
                           \A a \in {get_right_checked(Self, pre, b).ret} :
                               a # None =>
                                   /\ get_right_checked(Self', post, b) = OkSome(a[1])
                                   /\ get_left_checked(Self', post, a[1]) = OkSome(b)]_vars

\* a removal returned a partner other than its own key, and pairs are left
RemoveContractWitness ==
    /\ last.op \in {"remove_left", "remove_right"} /\ status = "ok"
    /\ last.ret # None /\ last.ret # Some(last.left + last.right)
    /\ len >= 1

\* C8: remove_left and remove_right of a key that no bucket holds return
\* None and change neither len nor any bucket of the two arrays.
RemoveAbsent ==
    [][/\ (/\ RemoveLeftStep
           /\ \A i \in Occupied(left_data) : left_data[i].data[1] # last'.left)
          => (status' = "ok" /\ last'.ret = None /\ UNCHANGED fields)
       /\ (/\ RemoveRightStep
           /\ \A i \in Occupied(right_data) : right_data[i].data[1] # last'.right)
          => (status' = "ok" /\ last'.ret = None /\ UNCHANGED fields)]_vars

\* C9: on every map the builder makes, get_left, get_right, remove_left and
\* remove_right return, and return None for a key that no bucket holds.
LookupsReturn ==
    /\ last.op \in {"get_left", "get_right", "remove_left", "remove_right"}
           => status = "ok"
    /\ (/\ last.op = "get_left"
        /\ \A i \in Occupied(left_data) : left_data[i].data[1] # last.left)
           => last.ret = None
    /\ (/\ last.op = "get_right"
        /\ \A i \in Occupied(right_data) : right_data[i].data[1] # last.right)
           => last.ret = None

\* C10: every call of insert returns, with its pair stored.
InsertCompletes ==
    (last.op = "insert" /\ ArrLen(left_data) > 0) =>
        /\ status = "ok"
        /\ get_left(Self, last.left) = OkSome(last.right)

\* C11: after every call that returned, len() is the number of occupied left
\* buckets and the number of occupied right buckets, and is_empty() holds
\* exactly when that number is 0.
LenCountsPairs ==
    status = "ok" =>
        /\ BiMap_len(Self) = Cardinality(Occupied(left_data))
        /\ BiMap_len(Self) = Cardinality(Occupied(right_data))
        /\ is_empty(Self) <=> Cardinality(Occupied(left_data)) = 0

\* a removal took a pair out of a map that keeps other pairs
LenCountsPairsWitness ==
    /\ status = "ok"
    /\ last.op \in {"remove_left", "remove_right"} /\ last.ret # None
    /\ BiMap_len(Self) >= 1
    /\ ~is_empty(Self)

\* C12: after every call that returned, len() <= capacity().
LenWithinCapacity ==
    status = "ok" => BiMap_len(Self) <= capacity(Self)

(***************************************************************************)
(* The capacity of freshly built maps.  The arrays of a map built for     *)
(* millions of pairs are not laid out: empty_vec(size) has size buckets    *)
(* (bucket.rs, lines 18-31) and capacity() reads nothing but that length   *)
(* (lib.rs, lines 89-91), so the capacity of the built map is computed     *)
(* from finish_capacity.  The map fields hold BiMap::new() throughout.     *)
(***************************************************************************)
\* The requested capacities: 0..MaxCapacity, and as many up to LargeCapacity
CapacityRequests ==
    (0..MaxCapacity) \cup ((LargeCapacity - MaxCapacity)..LargeCapacity)

CapacityInit ==
    \E n \in CapacityRequests :
        \E m \in {extend(finish(DEFAULT_HASH_MAP_SIZE, HashSpread, HashSpread),
                         << >>)} :
            Built(m, 0, n, m) /\ bf = BitFieldOf(0, "new", 0)

\* BiMapBuilder::new().capacity(requested).finish().capacity()
CapacityOfBuilt ==
    /\ Call
    /\ last.op = "new"
    /\ last' = [op |-> "capacity", left |-> 0, right |-> 0,
                ret |-> Some(FloorDivLoad(finish_capacity(requested))),
                resizes |-> 0, hops |-> 0]
    /\ UNCHANGED <<fields, status, fresh>>

CapacityNext == CapacityOfBuilt

CapacitySpec == CapacityInit /\ [][CapacityNext]_vars

\* C13: for every requested capacity n, the capacity() of the map built for
\* it is at least n.
CapacityAtLeastRequested ==
    last.op = "capacity" => last.ret[1] >= requested

\* C14: for every requested capacity n, n = 0 included, the builder makes
\* two arrays of length ceil(max(n, 32) * 1.1), with len 0 and every bucket
\* empty with an all-zero neighbourhood.
FinishArrays ==
    last.op = "new" /\ fresh.count = 0 =>
        /\ ArrLen(left_data)
               = (MAX_LOAD_FACTOR_NUM * Max(requested, DEFAULT_HASH_MAP_SIZE)
                      + MAX_LOAD_FACTOR_DEN - 1) \div MAX_LOAD_FACTOR_DEN
        /\ ArrLen(right_data) = ArrLen(left_data)
        /\ len = 0
        /\ \A i \in DOMAIN left_data :
               left_data[i].data = None /\ left_data[i].neighbourhood = 0
        /\ \A i \in DOMAIN right_data :
               right_data[i].data = None /\ right_data[i].neighbourhood = 0

\* The elements of a sequence
Range(seq) == {seq[k] : k \in DOMAIN seq}

\* The pairs stored in the map: the key of an occupied left bucket with the
\* key of the occupied right bucket that its pair index names
StoredPairs(self) ==
    {<<self.left_data[i].data[1],
       self.right_data[self.left_data[i].data[2]].data[1]>> :
        i \in {g \in Occupied(self.left_data) :
                  self.left_data[g].data[2] \in Occupied(self.right_data)}}

\* C15: the borrowing iteration (&map) and the owning iteration
\* (map.into_iter()) of a map yield the same collection: len() items each,
\* no item twice, the same items in both, and these are the stored pairs.
IterationsAgree ==
    status = "ok" =>
        \A refs \in {Iter_items(BiMap_iter(Self))},
           vals \in {IntoIter_items(into_iter(Self))} :
            /\ refs.tag = "ok"
            /\ vals.tag = "ok"
            /\ Len(refs.items) = BiMap_len(Self)
            /\ Len(vals.items) = BiMap_len(Self)
            /\ Cardinality(Range(refs.items)) = BiMap_len(Self)
            /\ Cardinality(Range(vals.items)) = BiMap_len(Self)
            /\ Range(refs.items) = Range(vals.items)
            /\ Range(refs.items) = StoredPairs(Self)

\* the insert of a pair into a map with pairs, after which both iterations
\* yield every pair of the map
IterationsAgreeWitness ==
    /\ status = "ok"
    /\ last.op = "insert"
    /\ len >= NumKeys - 1
    /\ Len(Iter_items(BiMap_iter(Self)).items) = len
    /\ Len(IntoIter_items(into_iter(Self)).items) = len

\* C16: every pair (a, b) that the borrowing iteration of a map yields is
\* found by the lookups of the same map: get_left(a) == Some(b) and
\* get_right(b) == Some(a).
IteratedPairsFound ==
    status = "ok" =>
        \A refs \in {Iter_items(BiMap_iter(Self))},
           passed \in {invariants(Self)} :
            /\ refs.tag = "ok"
            /\ \A k \in DOMAIN refs.items :
                   /\ get_left_checked(Self, passed, refs.items[k][1])
                          = OkSome(refs.items[k][2])
                   /\ get_right_checked(Self, passed, refs.items[k][2])
                          = OkSome(refs.items[k][1])

\* the insert of a pair into a map with pairs that evicts or moves pairs,
\* after which the iteration yields a pair (a, b) with a # b
IteratedPairsFoundWitness ==
    /\ status = "ok"
    /\ last.op = "insert"
    /\ last.ret # <<None, None>>
    /\ \E refs \in {Iter_items(BiMap_iter(Self))} :
           /\ refs.tag = "ok"
           /\ Len(refs.items) >= NumKeys - 2
           /\ \E k \in DOMAIN refs.items : refs.items[k][1] # refs.items[k][2]

\* C17: two maps compare equal exactly when they hold the same set of
\* pairs, whatever their array lengths, bucket positions and histories; the
\* map is compared with the map `other`, which was built with the hashers
\* exchanged from the pairs in the opposite order, and other with the map.
EqIsSamePairs ==
    status = "ok" =>
        \A same \in {StoredPairs(Self) = StoredPairs(other)} :
            /\ eq(Self, other) = [tag |-> "ok", ret |-> same]
            /\ eq(other, Self) = [tag |-> "ok", ret |-> same]

\* an insert makes the map equal to other, which has arrays of another
\* length or holds a pair in another bucket
EqIsSamePairsWitness ==
    /\ status = "ok"
    /\ last.op = "insert"
    /\ len > 0
    /\ left_data # other.left_data
    /\ eq(Self, other) = [tag |-> "ok", ret |-> TRUE]
    /\ eq(other, Self) = [tag |-> "ok", ret |-> TRUE]

(***************************************************************************)
(* The bitfields on their own: every bitfield of width W, iterated one     *)
(* call of next at a time, and the masks one_at(i) and zero_at(i) for      *)
(* every i below W.  The map fields hold BiMap::new() throughout.          *)
(***************************************************************************)
BitFields == 0..(2^W - 1)

BitInit ==
    \E b \in BitFields :
        \E m \in {extend(finish(DEFAULT_HASH_MAP_SIZE, HashSpread, HashSpread),
                         << >>)} :
            Built(m, 0, DEFAULT_HASH_MAP_SIZE, m) /\ bf = BitFieldOf(b, "new", 0)

BitUnchanged ==
    UNCHANGED <<fields, status, last, fresh, calls, requested, other>>

\* One call of next on the iterator of the bitfield
BitIterNext ==
    /\ ~bf.ended
    /\ \E n \in {BitFieldIterator_next(bf.it)} :
           bf' = IF n = None THEN [bf EXCEPT !.ended = TRUE]
                 ELSE [bf EXCEPT !.it = n[1].it,
                                 !.yielded = Append(bf.yielded, n[1].item)]
    /\ BitUnchanged

OneAt(index) ==
    /\ bf' = BitFieldOf(one_at(index), "one_at", index)
    /\ BitUnchanged

ZeroAt(index) ==
    /\ bf' = BitFieldOf(zero_at(index), "zero_at", index)
    /\ BitUnchanged

BitNext ==
    \/ BitIterNext
    \/ \E index \in 0..(W - 1) : OneAt(index)
    \/ \E index \in 0..(W - 1) : ZeroAt(index)

BitSpec == BitInit /\ [][BitNext]_vars

\* The indexes below W of the bits of b that are set
SetBits(b) == {i \in 0..(W - 1) : (b \div 2^i) % 2 = 1}

\* C18: the iterator of a bitfield of width W yields exactly the indexes
\* below W whose bit is set, each once, in strictly ascending order, and
\* then ends: what it has yielded so far is ascending and is the set bits
\* below its position, and next returns None exactly when every set bit has
\* been yielded.
BitIterAscending ==
    /\ \A k \in 1..(Len(bf.yielded) - 1) : bf.yielded[k] < bf.yielded[k + 1]
    /\ Range(bf.yielded) = {i \in SetBits(bf.bits) : i < bf.it[2]}
    /\ (BitFieldIterator_next(bf.it) = None)
           <=> (Range(bf.yielded) = SetBits(bf.bits))
    /\ bf.ended => Range(bf.yielded) = SetBits(bf.bits)
    /\ iter(bf.bits) \in Seq(0..(W - 1))
    /\ Range(iter(bf.bits)) = SetBits(bf.bits)
    /\ Len(iter(bf.bits)) = Cardinality(SetBits(bf.bits))

\* the iterator of a bitfield with clear bits between set ones has ended
\* after yielding four indexes and more
BitIterAscendingWitness ==
    /\ bf.op = "new"
    /\ bf.ended
    /\ Len(bf.yielded) >= 4
    /\ \E k \in 1..(Len(bf.yielded) - 1) : bf.yielded[k + 1] > bf.yielded[k] + 1
    /\ bf.bits % 2 = 0

\* C19: for every i below W, one_at(i) has exactly bit i set and zero_at(i)
\* is its complement, with exactly bit i clear; one_at(0) & zero_at(0) is
\* the empty bitfield; full() holds exactly for the bitfield with all W bits
\* set.
BitMasks ==
    /\ bf.bits \in BitFields
    /\ bf.op = "one_at" => SetBits(bf.bits) = {bf.index}
    /\ bf.op = "zero_at" =>
           /\ SetBits(bf.bits) = (0..(W - 1)) \ {bf.index}
           /\ BitAnd(bf.bits, one_at(bf.index)) = 0
           /\ BitOr(bf.bits, one_at(bf.index)) = 2^W - 1
    /\ BitAnd(one_at(0), zero_at(0)) = 0
    /\ SetBits(BitAnd(one_at(0), zero_at(0))) = {}
    /\ full(bf.bits) <=> SetBits(bf.bits) = 0..(W - 1)

\* zero_at(3) is 247, as in test_basics
BitMasksWitness ==
    /\ bf.op = "zero_at"
    /\ bf.index = 3
    /\ bf.bits = 247
    /\ ~full(bf.bits)

\* C20: after every public operation the two arrays name each other: the
\* pair index j of an occupied left bucket i is the index of an occupied
\* right bucket whose pair index is i, and the same from right to left; no
\* bucket keeps the placeholder usize::MAX.
CrossReferences ==
    status = "ok" =>
        /\ \A i \in Occupied(left_data) :
               /\ left_data[i].data[2] # usize_max_value
               /\ left_data[i].data[2] \in Occupied(right_data)
               /\ right_data[left_data[i].data[2]].data[2] = i
        /\ \A j \in Occupied(right_data) :
               /\ right_data[j].data[2] # usize_max_value
               /\ right_data[j].data[2] \in Occupied(left_data)
               /\ left_data[right_data[j].data[2]].data[2] = j

\* an insert into a map with pairs that moved pairs to other buckets
CrossReferencesWitness ==
    /\ status = "ok"
    /\ last.op = "insert"
    /\ last.hops > 0
    /\ len >= NumKeys - 2
    /\ \E i \in Occupied(left_data) : left_data[i].data[2] # i

\* Bit k of the neighbourhood of bucket d is set exactly when the bucket k
\* further on, going round the array, holds a key whose ideal index is d
BitsDescribeOccupancy(data) ==
    \A n \in {ArrLen(data)} :
        \A d \in DOMAIN data :
            SetBits(data[d].neighbourhood)
                = {k \in 0..(W - 1) :
                      /\ k < n
                      /\ data[(d + k) % n].data # None
                      /\ data[(d + k) % n].data[3] = d}

\* C21: after every public operation, in each array bit k of
\* data[d].neighbourhood is set if and only if the bucket (d + k) mod len
\* holds an entry whose ideal index is d: no bit is missing, none is stale.
NeighbourhoodsExact ==
    status = "ok" =>
        /\ BitsDescribeOccupancy(left_data)
        /\ BitsDescribeOccupancy(right_data)
        /\ \A d \in DOMAIN left_data :
               /\ left_data[d].neighbourhood \in BitFields
               /\ right_data[d].neighbourhood \in BitFields

\* an insert that moved an entry to another bucket, which cleared the bit of
\* its old bucket and set the bit of the new one, and a removal after it
NeighbourhoodsExactWitness ==
    /\ status = "ok"
    /\ last.op \in {"remove_left", "remove_right"}
    /\ last.ret # None
    /\ \E i \in Occupied(left_data) : left_data[i].data[3] # i
    /\ \E d \in DOMAIN left_data :
           Cardinality(SetBits(left_data[d].neighbourhood)) >= 2

\* Every key of the array sits less than W buckets after hash(key) mod len,
\* going round the array
WithinNeighbourhood(data, hasher) ==
    \A n \in {ArrLen(data)} :
        \A i \in Occupied(data) :
            (n + i - (hasher[data[i].data[1]] % n)) % n < W

\* C22: after every public operation every stored key, placed directly or
\* moved by a relocation, sits at circular distance less than W from its
\* ideal index, in both arrays; no call ends in a failed self-check.
DisplacementBelowW ==
    /\ status = "ok" =>
           /\ WithinNeighbourhood(left_data, left_hasher)
           /\ WithinNeighbourhood(right_data, right_hasher)
    /\ status = "panic" => ArrLen(left_data) = 0

\* an insert that moved entries, after which a key sits W - 1 buckets from
\* its ideal index
DisplacementBelowWWitness ==
    /\ status = "ok"
    /\ last.op = "insert"
    /\ last.hops > 0
    /\ \E i \in Occupied(left_data) :
           (ArrLen(left_data) + i - left_data[i].data[3]) % ArrLen(left_data)
               = W - 1

\* The ideal index stored with every key of the array is hash(key) mod len
IdealIndexIsHash(data, hasher) ==
    \A n \in {ArrLen(data)} :
        \A i \in Occupied(data) :
            data[i].data[3] = hasher[data[i].data[1]] % n

\* C23: after every public operation, also after a resize has changed the
\* length of the arrays, the ideal index stored in every occupied bucket is
\* hash(key) mod the current length; no call ends in a failed self-check.
StoredIdealIndexes ==
    /\ status = "ok" =>
           /\ IdealIndexIsHash(left_data, left_hasher)
           /\ IdealIndexIsHash(right_data, right_hasher)
    /\ status = "panic" => ArrLen(right_data) = 0

\* an insert that resized the arrays of a map with pairs twice
StoredIdealIndexesWitness ==
    /\ status = "ok"
    /\ last.op = "insert"
    /\ last.resizes >= 2
    /\ len >= NumKeys - 1
    /\ ArrLen(left_data) > RESIZE_GROWTH_FACTOR * CeilTimesLoad(DEFAULT_HASH_MAP_SIZE)

(***************************************************************************)
(* insert_one_sided and the placement step of insert on their own.  The    *)
(* maps are built with the default capacity and extended with 0 to         *)
(* NumKeys - 1 pairs (k, k), under five hash functions on each side; one   *)
(* removal may follow.  Then insert_one_sided is called once, on either    *)
(* array, with a key the array does not hold (insert has removed the keys  *)
(* of its pair before it places them), or the placement step of insert     *)
(* (lines 389-424) is run once.  What the call left is in the fields:      *)
(*   status  "Ok" or "Err" after insert_one_sided, "Diverge" or "Panic"    *)
(*           when it did not return; "placed" or "failure" after the       *)
(*           placement step                                                *)
(*   last    the call, the key as left or right, for insert_one_sided the  *)
(*           index returned, for the placement step the index the left key *)
(*           was first placed at, and the relocations made                 *)
(***************************************************************************)
\* key 1 and the last key in bucket 0, the keys between them in bucket 1
HashShift == [k \in Keys |-> IF k = 1 \/ k = NumKeys THEN 0 ELSE 1]

\* the first two keys W - 1 buckets before the end of the initial 36
\* buckets, the others in the bucket after that: their neighbourhood goes
\* round the end of the array
HashWrap ==
    [k \in Keys |-> IF k <= 2 THEN CeilTimesLoad(DEFAULT_HASH_MAP_SIZE) - W + 1
                    ELSE CeilTimesLoad(DEFAULT_HASH_MAP_SIZE) - W + 2]

PlaceHashers == {HashSpread, HashCollide, HashCluster, HashShift, HashWrap}

\* the keys that may be removed before the placement
PlaceGone == {1, 2}

PlaceInit ==
    \E lh \in PlaceHashers, rh \in PlaceHashers, n \in 0..(NumKeys - 1) :
        \E m \in {extend(finish(DEFAULT_HASH_MAP_SIZE, lh, rh),
                         [k \in 1..n |-> <<k, k>>])} :
            Built(m, n, DEFAULT_HASH_MAP_SIZE, m) /\ bf = BitFieldOf(0, "new", 0)

\* the keys of an array
KeysOf(data) == {data[i].data[1] : i \in Occupied(data)}

\* The map is as a public call left it, and nothing was placed yet.
Placeable ==
    /\ status = "ok"
    /\ last.op \in {"new", "remove_left"}
    /\ calls' = calls + 1
    /\ fresh' = NotFresh
    /\ UNCHANGED <<left_hasher, right_hasher, requested, other, bf>>

\* What insert_one_sided returned as r, with the relocations it made
Placed(r, left, right) ==
    /\ status' = r.tag
    /\ len' = len
    /\ last' = [op |-> "insert_one_sided", left |-> left, right |-> right,
                ret |-> IF r.tag = "Ok" THEN Some(r.index) ELSE None,
                resizes |-> 0, hops |-> r.hops]

InsertOneSidedLeft(key) ==
    /\ Placeable
    /\ key \notin KeysOf(left_data)
    /\ \E r \in {insert_one_sided(key, left_data, right_data, left_hasher, {})} :
           /\ Placed(r, key, 0)
           /\ IF r.tag \in {"Ok", "Err"}
              THEN left_data' = r.key_data /\ right_data' = r.value_data
              ELSE UNCHANGED <<left_data, right_data>>

InsertOneSidedRight(key) ==
    /\ Placeable
    /\ key \notin KeysOf(right_data)
    /\ \E r \in {insert_one_sided(key, right_data, left_data, right_hasher, {})} :
           /\ Placed(r, 0, key)
           /\ IF r.tag \in {"Ok", "Err"}
              THEN right_data' = r.key_data /\ left_data' = r.value_data
              ELSE UNCHANGED <<left_data, right_data>>

\* lines 389-403: the index the left key is first placed at, None if the
\* load check turns the pair away or the left key finds no place
LeftPlacement(self, left) ==
    IF F32Ge(F32Mul(MAX_LOAD_FACTOR, F32FromInt(self.len)),
            F32FromInt(ArrLen(self.left_data)))
    THEN None
    ELSE The({IF l.tag = "Ok" THEN Some(l.index) ELSE None :
                 l \in {insert_one_sided(left, self.left_data, self.right_data,
                                         self.left_hasher, {})}})

\* lines 389-428 of insert, for keys the dedup has left absent: the map is
\* left as the self-check of line 430 finds it, before any resize
InsertPlace(left, right) ==
    /\ Placeable
    /\ left \notin KeysOf(left_data)
    /\ right \notin KeysOf(right_data)
    /\ \E p \in {insert_place(Self, left, right)} :
           /\ status' = IF p.tag # "ok" THEN p.tag
                        ELSE IF p.failure THEN "failure" ELSE "placed"
           /\ last' = [op |-> "insert_place", left |-> left, right |-> right,
                       ret |-> LeftPlacement(Self, left),
                       resizes |-> 0, hops |-> p.hops]
           /\ len' = p.self.len
           /\ IF p.tag = "ok"
              THEN /\ left_data' = p.self.left_data
                   /\ right_data' = p.self.right_data
              ELSE UNCHANGED <<left_data, right_data>>

PlaceNext ==
    \/ \E a \in PlaceGone : last.op = "new" /\ RemoveLeft(a)
    \/ \E key \in Keys : InsertOneSidedLeft(key)
    \/ \E key \in Keys : InsertOneSidedRight(key)
    \/ \E left \in Keys, right \in Keys : InsertPlace(left, right)

PlaceSpec == PlaceInit /\ [][PlaceNext]_vars

\* The key insert_one_sided was called with, the array it was to go in (the
\* other array holds the partners), its hasher and its ideal bucket
PlacedKey == last.left + last.right

PlacedData == IF last.left # 0 THEN left_data ELSE right_data

PairedData == IF last.left # 0 THEN right_data ELSE left_data

PlacedHasher == IF last.left # 0 THEN left_hasher ELSE right_hasher

PlacedIdeal == PlacedHasher[PlacedKey] % ArrLen(PlacedData)

\* C24: whenever insert_one_sided returns Err(key) - the neighbourhood of the
\* ideal bucket is saturated, there is no free slot, no occupant is eligible
\* for relocation, or the nested relocation failed - both arrays are exactly
\* as they were before the call.
ErrLeavesArrays ==
    [][(last'.op = "insert_one_sided" /\ status' = "Err")
          => (left_data' = left_data /\ right_data' = right_data)]_vars

\* an Err of the nested relocation: the neighbourhood of the ideal bucket has
\* room, and the occupant of its last bucket was taken out and put back
ErrLeavesArraysWitness ==
    /\ status = "Err"
    /\ last.op = "insert_one_sided"
    /\ ~full(PlacedData[PlacedIdeal].neighbourhood)
    /\ \E i \in {(PlacedIdeal + W - 1) % ArrLen(PlacedData)} :
           /\ PlacedData[i].data # None
           /\ PlacedData[i].data[3] > PlacedIdeal
           /\ full(PlacedData[PlacedData[i].data[3]].neighbourhood)

\* C25: a single call of insert_one_sided always returns after finitely many
\* relocation steps: the recursion never reaches the same array and pending
\* key a second time.
InsertOneSidedReturns ==
    last.op = "insert_one_sided" => status \in {"Ok", "Err"}

\* C26: whenever insert_one_sided returns Ok(index), the key is stored at
\* exactly that index and nowhere else, the index is less than W buckets after
\* the key's ideal index, going round the array, and the bit of that distance
\* is set in the neighbourhood of the ideal bucket.
OkIndexHoldsKey ==
    (last.op = "insert_one_sided" /\ status = "Ok") =>
        \E index \in {last.ret[1]}, n \in {ArrLen(PlacedData)} :
            /\ index \in Occupied(PlacedData)
            /\ \A i \in Occupied(PlacedData) :
                   PlacedData[i].data[1] = PlacedKey <=> i = index
            /\ (n + index - PlacedIdeal) % n < W
            /\ (n + index - PlacedIdeal) % n
                   \in SetBits(PlacedData[PlacedIdeal].neighbourhood)

\* a placement that took the bucket of another key
OkIndexHoldsKeyWitness ==
    /\ last.op = "insert_one_sided"
    /\ status = "Ok"
    /\ last.hops > 0
    /\ last.ret[1] # PlacedIdeal

\* Every key of key_data is in exactly one bucket of the later array
\* key_data2, and the bucket that one points at in value_data2 holds the key it
\* was paired with in value_data and points back at it.
KeptPairs(key_data, value_data, key_data2, value_data2) ==
    \A i \in Occupied(key_data) :
        /\ Cardinality({j \in Occupied(key_data2) :
                           key_data2[j].data[1] = key_data[i].data[1]}) = 1
        /\ \A j \in Occupied(key_data2) :
               key_data2[j].data[1] = key_data[i].data[1] =>
                   \E v \in {key_data2[j].data[2]} :
                       /\ v \in Occupied(value_data2)
                       /\ value_data2[v].data[1]
                              = value_data[key_data[i].data[2]].data[1]
                       /\ value_data2[v].data[2] = j

\* C27: an insert_one_sided that returns Ok never loses or re-pairs an entry:
\* every key the key array held before the call is in it exactly once
\* afterwards, and its partner slot holds the same partner key and points back
\* at the key's index, also when the key was relocated.
OkKeepsPairs ==
    [][(last'.op = "insert_one_sided" /\ status' = "Ok") =>
          IF last'.left # 0
          THEN KeptPairs(left_data, right_data, left_data', right_data')
          ELSE KeptPairs(right_data, left_data, right_data', left_data')]_vars

\* a placement that relocated the key of an existing pair
OkKeepsPairsWitness ==
    /\ last.op = "insert_one_sided"
    /\ status = "Ok"
    /\ last.hops > 0
    /\ \E i \in Occupied(PlacedData) :
           /\ PlacedData[i].data[1] # PlacedKey
           /\ (ArrLen(PlacedData) + i - PlacedData[i].data[3]) % ArrLen(PlacedData)
                  = W - 1

\* The offsets below W, from the bucket ideal_index on and round the array,
\* of the free buckets of key_data
FreeOffsets(key_data, ideal_index) ==
    {o \in 0..(W - 1) :
        key_data[(ideal_index + o) % ArrLen(key_data)].data = None}

\* key_data2 is key_data with the key in its first free bucket, `offset`
\* buckets after ideal_index, and with bit `offset` of the neighbourhood of
\* ideal_index set as well; the call returned that bucket
PlacedDirectly(key, key_data, key_data2, ideal_index, ret) ==
    \E n \in {ArrLen(key_data)},
       offset \in {CHOOSE o \in FreeOffsets(key_data, ideal_index) :
                      \A p \in FreeOffsets(key_data, ideal_index) : o <= p} :
        /\ ret = Some((ideal_index + offset) % n)
        /\ DOMAIN key_data2 = DOMAIN key_data
        /\ key_data2[ret[1]].data # None
        /\ key_data2[ret[1]].data[1] = key
        /\ key_data2[ret[1]].data[3] = ideal_index
        /\ offset \notin SetBits(key_data[ideal_index].neighbourhood)
        /\ SetBits(key_data2[ideal_index].neighbourhood)
               = SetBits(key_data[ideal_index].neighbourhood) \cup {offset}
        /\ key_data2[ideal_index].neighbourhood \in BitFields
        /\ \A d \in DOMAIN key_data :
               /\ d # ret[1] => key_data2[d].data = key_data[d].data
               /\ d # ideal_index =>
                      key_data2[d].neighbourhood = key_data[d].neighbourhood

\* C28: when the neighbourhood of the key's ideal bucket is not full and the
\* first free bucket from the ideal index on, going round the array, is at an
\* offset below W, insert_one_sided returns Ok with the key stored in exactly
\* that bucket and exactly bit `offset` of the ideal bucket's neighbourhood
\* set; no other bucket or neighbourhood of either array changes.
DirectPlacement ==
    [][/\ (/\ last'.op = "insert_one_sided"
           /\ last'.left # 0
           /\ ~full(left_data[left_hasher[last'.left] % ArrLen(left_data)].neighbourhood)
           /\ FreeOffsets(left_data,
                  left_hasher[last'.left] % ArrLen(left_data)) # {})
          => /\ status' = "Ok"
             /\ right_data' = right_data
             /\ PlacedDirectly(last'.left, left_data, left_data',
                    left_hasher[last'.left] % ArrLen(left_data), last'.ret)
       /\ (/\ last'.op = "insert_one_sided"
           /\ last'.right # 0
           /\ ~full(right_data[right_hasher[last'.right] % ArrLen(right_data)].neighbourhood)
           /\ FreeOffsets(right_data,
                  right_hasher[last'.right] % ArrLen(right_data)) # {})
          => /\ status' = "Ok"
             /\ left_data' = left_data
             /\ PlacedDirectly(last'.right, right_data, right_data',
                    right_hasher[last'.right] % ArrLen(right_data), last'.ret)]_vars

\* a direct placement after the ideal bucket and one or more other buckets
DirectPlacementWitness ==
    /\ last.op = "insert_one_sided"
    /\ status = "Ok"
    /\ last.hops = 0
    /\ (ArrLen(PlacedData) + last.ret[1] - PlacedIdeal) % ArrLen(PlacedData) >= 2

\* C29: if insert places the left key and the placement of the right key
\* fails, then before any resize the left placement is undone - the bucket is
\* empty, the left key is in no bucket and its neighbourhood bit is clear -
\* len is not incremented, and the self-check (invariants) passes on the map
\* as it is then.
FailedRightUndoesLeft ==
    [][(/\ last'.op = "insert_place"
        /\ status' = "failure"
        /\ last'.ret # None)
          => \E index \in {last'.ret[1]}, n \in {ArrLen(left_data')} :
                 /\ left_data'[index].data = None
                 /\ last'.left \notin KeysOf(left_data')
                 /\ (n + index - (left_hasher[last'.left] % n)) % n
                        \notin SetBits(left_data'[left_hasher[last'.left] % n].neighbourhood)
                 /\ BitsDescribeOccupancy(left_data')
                 /\ len' = len
                 /\ invariants(Self')]_vars

\* the left key was placed and taken out again, and the placement had moved
\* another key on
FailedRightUndoesLeftWitness ==
    /\ last.op = "insert_place"
    /\ status = "failure"
    /\ last.ret # None
    /\ last.hops > 0

\* C30: insert(a, b) on a map that holds the pair (a, b) is an idempotent
\* short-circuit: nothing is removed and nothing is placed, so both arrays -
\* the bucket of every key, every neighbourhood, the array length - and len
\* are after the call what they were before it.
ReinsertChangesNothing ==
    [][(/\ InsertStep
        /\ status' = "ok"
        /\ <<last'.left, last'.right>> \in StoredPairs(Self))
          => (left_data' = left_data /\ right_data' = right_data /\ len' = len)]_vars

\* C31: the two arrays always have the same length.  The length changes only
\* in an insert, by resize steps that each make both arrays
\* RESIZE_GROWTH_FACTOR = 2 times as long as they were; the lookups and the
\* removals never change it, and the arrays never get shorter.
ArraysOnlyDouble ==
    [][/\ ArrLen(left_data) = ArrLen(right_data)
       /\ ArrLen(left_data') = ArrLen(right_data')
       /\ ArrLen(left_data') >= ArrLen(left_data)
       /\ ArrLen(left_data') # ArrLen(left_data) => InsertStep
       /\ InsertStep =>
              ArrLen(left_data')
                  = ArrLen(left_data) * RESIZE_GROWTH_FACTOR ^ (last'.resizes)]_vars

\* an insert that resized twice, from 36 to 144 buckets
ArraysOnlyDoubleWitness ==
    /\ status = "ok"
    /\ last.op = "insert"
    /\ last.resizes = 2
    /\ ArrLen(left_data) = ArrLen(right_data)
    /\ ArrLen(left_data)
           = RESIZE_GROWTH_FACTOR * RESIZE_GROWTH_FACTOR
                 * CeilTimesLoad(DEFAULT_HASH_MAP_SIZE)

\* lines 274-290: does a relocation step of insert_one_sided(key, key_data, ..)
\* take out an occupant whose pair index is usize::MAX?  The steps are followed
\* down the recursion of line 290 until a call places its key, gives up, or
\* is a call that was made before.
RECURSIVE moves_unlinked(_, _, _, _)
moves_unlinked(key, key_data, hasher, stack) ==
    \E n \in {ArrLen(key_data)} :
    \E ideal_index \in {find_ideal_index(key, hasher, n)} :
        /\ <<key, key_data>> \notin stack
        /\ ~full(key_data[ideal_index].neighbourhood)
        /\ \E nearest \in {nearest_free(key_data, ideal_index, n)} :
               /\ nearest # None
               /\ nearest[1] >= W
               /\ \E max_offset \in {(ideal_index + W) % n} :
                  \E found \in {Find([i \in 1..(W - 1) |-> (n + max_offset - i) % n],
                                     LAMBDA i :
                                         \/ key_data[i].data[3] > ideal_index
                                         \/ key_data[i].data[3] < max_offset)} :
                      /\ found # None
                      /\ \/ key_data[found[1]].data[2] = usize_max_value
                         \/ moves_unlinked(
                                key_data[found[1]].data[1],
                                [key_data EXCEPT ![found[1]].data =
                                    <<key, usize_max_value, ideal_index>>],
                                hasher, stack \cup {<<key, key_data>>})

\* C32: no relocation step of insert_one_sided takes out an occupant whose
\* pair index is still the placeholder usize::MAX, so a key that was placed
\* and not linked yet is never moved and the paired array is never indexed
\* with the placeholder.
LinkedBeforeMoved ==
    [][/\ (last'.op = "insert_one_sided" /\ last'.left # 0)
              => ~moves_unlinked(last'.left, left_data, left_hasher, {})
       /\ (last'.op = "insert_one_sided" /\ last'.right # 0)
              => ~moves_unlinked(last'.right, right_data, right_hasher, {})
       /\ status' # "Panic"]_vars

=============================================================================
